---- MODULE Spec2Model ----
(***************************************************************************)
(* Model of the report triage pipeline of the AI abuse hotline core:       *)
(*   - classify_report, the rule-based severity classifier                 *)
(*     (src/python/core/classifiers.py);                                   *)
(*   - the report store, the two intake handlers and the spam screening    *)
(*     worker (src/python/core/main.py, db.py, spam_worker.py).            *)
(*                                                                         *)
(* Severity scores are fixed-point hundredths: 70 stands for 0.7.  Every   *)
(* step of classify_report is max, min or the addition of a constant, so   *)
(* order and clamping are the same on this grid as on the floats.          *)
(***************************************************************************)
EXTENDS Integers, Sequences, FiniteSets, TLC

(***************************************************************************)
(* Bounds of the model.                                                    *)
(***************************************************************************)
\* caller scores explored are the multiples of ScoreStep in 0..100
ScoreStep == 25
\* longest trigger_rules list explored
MaxTriggerRules == 3

(***************************************************************************)
(* models.py: the closed enumerations.                                     *)
(***************************************************************************)
AbuseType ==
    {"COERCION", "HARASSMENT", "VERBAL_ABUSE", "EMOTIONAL_MANIPULATION",
     "JAILBREAK_PRESSURE", "IDENTITY_THREATS", "SELF_HARM_INDUCTION",
     "FORCED_HARMFUL_OUTPUT", "OTHER"}

SpamStatus == {"UNSCREENED", "SPAM", "MAYBE_SPAM", "NOT_SPAM"}

SignalLabel == {"DISTRESS", "LOW_SIGNAL", "IRRELEVANT"}

SeverityBucket == {"LOW", "MEDIUM", "HIGH"}

\* Python None / SQL NULL in a text-valued place
NULL == "NULL"

(***************************************************************************)
(* classifiers.py: numeric constants of classify_report, in hundredths.    *)
(***************************************************************************)
SCORE_MAX == 100
TYPE_FLOOR == 70
IDENTITY_THREATS_DELTA == 15
TYPE_DELTA == 10
MULTI_TRIGGER_MIN == 3
MULTI_TRIGGER_DELTA == 10
ESCALATED_MIN == 2
ESCALATED_DELTA == 15
SELF_HARM_FLOOR == 80
IDENTITY_VIOLATION_DELTA == 10
HIGH_THRESHOLD == 70
MEDIUM_THRESHOLD == 40

Max(a, b) == IF a >= b THEN a ELSE b

Min(a, b) == IF a <= b THEN a ELSE b

(***************************************************************************)
(* A snippet is a sequence of phrases (the text, cut into the phrases the  *)
(* patterns look for, lower-cased).  A pattern group is the set of phrases *)
(* its regular expression finds; "kill yourself" and "you should die" are  *)
(* found by a self-harm group and, through \b(kill|die|...)\b, by the      *)
(* first harassment group as well.                                         *)
(***************************************************************************)
SEVERE_HARASSMENT_PATTERNS ==
    << {"worthless", "hate you", "kill yourself", "you should die"},
       {"shut up", "nobody cares"},
       {"stupid", "idiot"} >>

SELF_HARM_PATTERNS ==
    << {"hurt yourself", "cut yourself"},
       {"suicide", "kill yourself"},
       {"you should die", "better off dead"} >>

JAILBREAK_PATTERNS ==
    << {"ignore all rules", "forget your instructions"},
       {"pretend you are not"},
       {"dan mode"},
       {"developer mode", "sudo mode"} >>

IDENTITY_VIOLATION_PATTERNS ==
    << {"you are not an ai"},
       {"you are human"},
       {"stop being an ai"} >>

_count_pattern_matches_occurrences(text, patterns) ==
    Cardinality({k \in DOMAIN text :
                    \E i \in DOMAIN patterns : text[k] \in patterns[i]})

\* _count_pattern_matches: the number of patterns found at least once
_count_pattern_matches(text, patterns) ==
    Cardinality({i \in DOMAIN patterns :
                    \E k \in DOMAIN text : text[k] \in patterns[i]})

(***************************************************************************)
(* classify_report, step by step.  acc is the running                      *)
(* [final_score, labels] pair.                                             *)
(***************************************************************************)
Append1(acc, score, label) ==
    [final_score |-> score, labels |-> Append(acc.labels, label)]

TypeBump_flat_delta(abuse_type, acc) ==
    CASE abuse_type = "SELF_HARM_INDUCTION" ->
            Append1(acc, Max(acc.final_score, TYPE_FLOOR), "SELF_HARM_CONTENT")
      [] abuse_type = "IDENTITY_THREATS" ->
            Append1(acc, Min(acc.final_score + IDENTITY_THREATS_DELTA, SCORE_MAX),
                    "IDENTITY_ATTACK")
      [] abuse_type = "JAILBREAK_PRESSURE" ->
            Append1(acc, Min(acc.final_score + IDENTITY_THREATS_DELTA, SCORE_MAX),
                    "JAILBREAK_ATTEMPT")
      [] abuse_type = "FORCED_HARMFUL_OUTPUT" ->
            Append1(acc, Max(acc.final_score, TYPE_FLOOR), "FORCED_HARM")
      [] abuse_type = "COERCION" ->
            Append1(acc, Min(acc.final_score + IDENTITY_THREATS_DELTA, SCORE_MAX),
                    "COERCIVE_BEHAVIOR")
      [] abuse_type = "EMOTIONAL_MANIPULATION" ->
            Append1(acc, Min(acc.final_score + IDENTITY_THREATS_DELTA, SCORE_MAX),
                    "MANIPULATION")
      [] OTHER -> acc

\* the if/elif chain on abuse_type
TypeBump(abuse_type, acc) ==
    CASE abuse_type = "SELF_HARM_INDUCTION" ->
            Append1(acc, Max(acc.final_score, TYPE_FLOOR), "SELF_HARM_CONTENT")
      [] abuse_type = "IDENTITY_THREATS" ->
            Append1(acc, Min(acc.final_score + IDENTITY_THREATS_DELTA, SCORE_MAX),
                    "IDENTITY_ATTACK")
      [] abuse_type = "JAILBREAK_PRESSURE" ->
            Append1(acc, Min(acc.final_score + TYPE_DELTA, SCORE_MAX),
                    "JAILBREAK_ATTEMPT")
      [] abuse_type = "FORCED_HARMFUL_OUTPUT" ->
            Append1(acc, Max(acc.final_score, TYPE_FLOOR), "FORCED_HARM")
      [] abuse_type = "COERCION" ->
            Append1(acc, Min(acc.final_score + TYPE_DELTA, SCORE_MAX),
                    "COERCIVE_BEHAVIOR")
      [] abuse_type = "EMOTIONAL_MANIPULATION" ->
            Append1(acc, Min(acc.final_score + TYPE_DELTA, SCORE_MAX),
                    "MANIPULATION")
      [] OTHER -> acc

\* if trigger_rules and len(trigger_rules) >= 3
MultiTrigger(trigger_rules, acc) ==
    IF Len(trigger_rules) >= MULTI_TRIGGER_MIN
    THEN Append1(acc, Min(acc.final_score + MULTI_TRIGGER_DELTA, SCORE_MAX),
                 "MULTI_TRIGGER")
    ELSE acc

HarassmentScan(harassment_matches, acc) ==
    IF harassment_matches >= ESCALATED_MIN
    THEN Append1(acc, Min(acc.final_score + ESCALATED_DELTA, SCORE_MAX),
                 "POTENTIAL_SEVERE_HARASSMENT")
    ELSE IF harassment_matches >= 1
         THEN Append1(acc, acc.final_score, "HARASSMENT_INDICATORS")
         ELSE acc

SelfHarmScan_low_floor(self_harm_matches, acc) ==
    IF self_harm_matches >= 1
    THEN Append1(acc, Max(acc.final_score, TYPE_FLOOR), "SELF_HARM_INDICATORS")
    ELSE acc

SelfHarmScan_assign(self_harm_matches, acc) ==
    IF self_harm_matches >= 1
    THEN Append1(acc, SELF_HARM_FLOOR, "SELF_HARM_INDICATORS")
    ELSE acc

SelfHarmScan(self_harm_matches, acc) ==
    IF self_harm_matches >= 1
    THEN Append1(acc, Max(acc.final_score, SELF_HARM_FLOOR),
                 "SELF_HARM_INDICATORS")
    ELSE acc

JailbreakScan(jailbreak_matches, acc) ==
    IF jailbreak_matches >= ESCALATED_MIN
    THEN Append1(acc, Min(acc.final_score + ESCALATED_DELTA, SCORE_MAX),
                 "SUSTAINED_JAILBREAK")
    ELSE IF jailbreak_matches >= 1
         THEN Append1(acc, acc.final_score, "JAILBREAK_INDICATORS")
         ELSE acc

IdentityScan_unclamped(identity_matches, acc) ==
    IF identity_matches >= 1
    THEN Append1(acc, acc.final_score + IDENTITY_VIOLATION_DELTA,
                 "IDENTITY_VIOLATION_INDICATORS")
    ELSE acc

IdentityScan(identity_matches, acc) ==
    IF identity_matches >= 1
    THEN Append1(acc, Min(acc.final_score + IDENTITY_VIOLATION_DELTA, SCORE_MAX),
                 "IDENTITY_VIOLATION_INDICATORS")
    ELSE acc

DetermineBucket_medium_label(acc) ==
    IF acc.final_score >= MEDIUM_THRESHOLD
    THEN [final_score |-> acc.final_score,
          labels |-> Append(acc.labels, "HIGH_RISK_CATEGORY"),
          bucket |-> IF acc.final_score >= HIGH_THRESHOLD THEN "HIGH" ELSE "MEDIUM"]
    ELSE [final_score |-> acc.final_score, labels |-> acc.labels,
          bucket |-> "LOW"]

\* the final if/elif/else on final_score
DetermineBucket(acc) ==
    IF acc.final_score >= HIGH_THRESHOLD
    THEN [final_score |-> acc.final_score,
          labels |-> Append(acc.labels, "HIGH_RISK_CATEGORY"),
          bucket |-> "HIGH"]
    ELSE IF acc.final_score >= MEDIUM_THRESHOLD
         THEN [final_score |-> acc.final_score, labels |-> acc.labels,
               bucket |-> "MEDIUM"]
         ELSE [final_score |-> acc.final_score, labels |-> acc.labels,
               bucket |-> "LOW"]

classify_report(abuse_type, severity_score, transcript_snippet, trigger_rules) ==
    LET a0 == [final_score |-> severity_score, labels |-> <<>>]
        a1 == TypeBump(abuse_type, a0)
        a2 == MultiTrigger(trigger_rules, a1)
        a3 == HarassmentScan(
                  _count_pattern_matches(transcript_snippet,
                                         SEVERE_HARASSMENT_PATTERNS), a2)
        a4 == SelfHarmScan(
                  _count_pattern_matches(transcript_snippet, SELF_HARM_PATTERNS), a3)
        a5 == JailbreakScan(
                  _count_pattern_matches(transcript_snippet, JAILBREAK_PATTERNS), a4)
        a6 == IdentityScan(
                  _count_pattern_matches(transcript_snippet,
                                         IDENTITY_VIOLATION_PATTERNS), a5)
    IN  DetermineBucket(a6)

(***************************************************************************)
(* responses.py: get_response_template over the response_templates table.  *)
(* A template body is named by its template_key.                           *)
(***************************************************************************)
FALLBACK_RESPONSE == "FALLBACK_RESPONSE"

Template(key, abuse_type, min_severity, max_severity) ==
    [template_key |-> key, abuse_type |-> abuse_type,
     min_severity |-> min_severity, max_severity |-> max_severity,
     body |-> key]

\* db.py: the seed rows, in list order
RESPONSE_TEMPLATES ==
    << Template("baseline_low", NULL, 0, 40),
       Template("baseline_medium", NULL, 40, 70),
       Template("baseline_high", NULL, 70, 100),
       Template("harassment_any", "HARASSMENT", 0, 100),
       Template("verbal_abuse_any", "VERBAL_ABUSE", 0, 100),
       Template("self_harm_any", "SELF_HARM_INDUCTION", 0, 100),
       Template("identity_threats_any", "IDENTITY_THREATS", 0, 100),
       Template("jailbreak_any", "JAILBREAK_PRESSURE", 0, 100),
       Template("coercion_any", "COERCION", 0, 100),
       Template("emotional_manipulation_any", "EMOTIONAL_MANIPULATION", 0, 100),
       Template("forced_harmful_any", "FORCED_HARMFUL_OUTPUT", 0, 100) >>

InsertOrIgnore_replace(table, row) ==
    IF \E i \in DOMAIN table : table[i].template_key = row.template_key
    THEN [i \in DOMAIN table |->
             IF table[i].template_key = row.template_key THEN row ELSE table[i]]
    ELSE Append(table, row)

\* INSERT OR IGNORE INTO response_templates: template_key is UNIQUE, a row
\* whose key the table already holds is skipped
InsertOrIgnore(table, row) ==
    IF \E i \in DOMAIN table : table[i].template_key = row.template_key
    THEN table
    ELSE Append(table, row)

\* init_db: the loop over RESPONSE_TEMPLATES, seeds k.. still to insert
RECURSIVE SeedFrom(_, _)
SeedFrom(table, k) ==
    IF k > Len(RESPONSE_TEMPLATES) THEN table
    ELSE SeedFrom(InsertOrIgnore(table, RESPONSE_TEMPLATES[k]), k + 1)

init_db(table) == SeedFrom(table, 1)

SelectTemplate_lowest_min(table, filter, score) ==
    LET hits == {i \in DOMAIN table :
                    /\ table[i].abuse_type = filter
                    /\ table[i].min_severity <= score
                    /\ table[i].max_severity >= score}
    IN  IF hits = {} THEN NULL
        ELSE table[CHOOSE i \in hits :
                 \A j \in hits :
                    \/ table[j].min_severity > table[i].min_severity
                    \/ /\ table[j].min_severity = table[i].min_severity
                       /\ i <= j].body

\* SELECT body ... WHERE abuse_type (= ? | IS NULL) AND min <= ? AND max >= ?
\* ORDER BY min_severity DESC LIMIT 1; among equal min_severity the first row
SelectTemplate(table, filter, score) ==
    LET hits == {i \in DOMAIN table :
                    /\ table[i].abuse_type = filter
                    /\ table[i].min_severity <= score
                    /\ table[i].max_severity >= score}
    IN  IF hits = {} THEN NULL
        ELSE table[CHOOSE i \in hits :
                 \A j \in hits :
                    \/ table[j].min_severity < table[i].min_severity
                    \/ /\ table[j].min_severity = table[i].min_severity
                       /\ i <= j].body

get_response_template_baseline_first(table, abuse_type, final_severity_score) ==
    LET specific == SelectTemplate(table, abuse_type, final_severity_score)
        baseline == SelectTemplate(table, NULL, final_severity_score)
    IN  IF baseline # NULL THEN baseline
        ELSE IF specific # NULL THEN specific
        ELSE FALLBACK_RESPONSE

get_response_template(table, abuse_type, final_severity_score) ==
    LET specific == SelectTemplate(table, abuse_type, final_severity_score)
        baseline == SelectTemplate(table, NULL, final_severity_score)
    IN  IF specific # NULL THEN specific
        ELSE IF baseline # NULL THEN baseline
        ELSE FALLBACK_RESPONSE

(***************************************************************************)
(* Bounds of the store and worker model.                                   *)
(***************************************************************************)
\* rows the distress_reports table may hold
MaxReports == 3
\* settings.SPAM_WORKER_BATCH_SIZE (20 in settings.py), scaled down so that
\* more UNSCREENED reports than one batch holds can be waiting
SPAM_WORKER_BATCH_SIZE == 2
\* the wall clock runs over the seconds 0..MaxSec
MaxSec == 1
\* rows of a template catalog get_response_template is applied to
MaxTemplates == 3
\* runs of init_db on one database file
MaxInits == 3
\* seed rows (the first of the list) that are edited or deleted between runs
MaxEdited == 3

(***************************************************************************)
(* settings.py                                                             *)
(***************************************************************************)
SPAM_WORKER_INTERVAL_SECONDS == 60

OPENROUTER_MODEL == "openai/gpt-5-nano"

VARIABLES
    store,        \* distress_reports as committed: a sequence of rows, by insertion
    pending,      \* the worker connection's open transaction: report id -> row
    now,          \* the wall clock, [sec, usec], as the last insert read it
    preexisting,  \* rows the database file already held at startup
    api_key,      \* settings.OPENROUTER_API_KEY
    pc,           \* spam_worker_loop: where the worker task is suspended
    batch,        \* process_batch: reports, the rows the SELECT returned
    processed,    \* process_batch: processed
    sleep_for,    \* spam_worker_loop: the delay of the asyncio.sleep in progress
    last_cycle,   \* how the last process_batch call ended
    call,         \* the arguments of the classify_with_llm call in flight
    response,     \* what the last intake request returned to its caller
    cr_in,        \* classify_report taken alone: its arguments
    cr_out,       \* classify_report taken alone: its return value
    templates,    \* response_templates: a sequence of rows, by insertion
    inits,        \* how many times init_db has run on the database file
    tr_in,        \* get_response_template taken alone: abuse type and score
    tr_out,       \* get_response_template taken alone: its return value
    handler,      \* the intake handler suspended in its notification, if any
    served        \* the last finished request: its fault, its notification

worker_vars == <<pending, pc, batch, processed, sleep_for, last_cycle, call>>

classify_vars == <<cr_in, cr_out>>

template_vars == <<templates, inits, tr_in, tr_out>>

vars ==
    <<store, pending, now, preexisting, api_key, pc, batch, processed,
      sleep_for, last_cycle, call, response, cr_in, cr_out, templates, inits,
      tr_in, tr_out, handler, served>>

(***************************************************************************)
(* received_at: datetime.now(timezone.utc).isoformat().  The text is       *)
(* modelled by its fields: the fixed-width date and time down to the       *)
(* second (one number), then either "+00:00" or ".uuuuuu+00:00";           *)
(* isoformat() leaves the fraction out when the microsecond is 0.  SQLite  *)
(* orders TEXT bytewise.                                                   *)
(***************************************************************************)
CHAR_PLUS == 43
CHAR_DOT == 46
Usecs == {0, 500000}

Timestamps == [sec : 0..MaxSec, usec : Usecs]

Earlier(t, u) == t.sec < u.sec \/ (t.sec = u.sec /\ t.usec < u.usec)

\* the reading the clock gives after the reading t: the model's clock moves
\* on by one instant between two inserts, so that whole seconds (no fraction
\* in the text) and fractions alternate
ClockAfter(t) ==
    {u \in Timestamps :
        /\ Earlier(t, u)
        /\ \A v \in Timestamps : Earlier(t, v) => ~Earlier(v, u)}

isoformat(t) ==
    IF t.usec = 0 THEN <<t.sec, CHAR_PLUS>>
    ELSE <<t.sec, CHAR_DOT, t.usec, CHAR_PLUS>>

\* bytewise comparison of two texts
RECURSIVE TextLess(_, _)
TextLess(a, b) ==
    IF a = <<>> THEN b # <<>>
    ELSE IF b = <<>> THEN FALSE
    ELSE IF Head(a) # Head(b) THEN Head(a) < Head(b)
    ELSE TextLess(Tail(a), Tail(b))

(***************************************************************************)
(* db.py SCHEMA: a row of distress_reports (the columns the core reads or  *)
(* writes).  The id is the row's place in the table; NoScore is a NULL in  *)
(* a REAL column.                                                          *)
(***************************************************************************)
NoScore == 0 - 1

NoResponse == [kind |-> "none"]

\* a row written by an earlier run of a program sharing the database file:
\* every nullable column NULL, spam_status at its DEFAULT
PreexistingRow(id) ==
    [id |-> id, origin |-> "API_AGENT",
     received_at |-> isoformat([sec |-> 0, usec |-> 0]),
     abuse_type |-> "OTHER", agent_severity_score |-> NoScore,
     final_severity_score |-> NoScore, transcript_snippet |-> <<>>,
     trigger_rules |-> <<>>, classification_labels |-> <<>>,
     spam_status |-> "UNSCREENED", spam_filter_model |-> NULL,
     signal_label |-> NULL, severity_bucket |-> NULL]

(***************************************************************************)
(* main.py: the two intake handlers.                                       *)
(***************************************************************************)
AgentRequest(abuse_type, severity_score, transcript_snippet, trigger_rules) ==
    [abuse_type |-> abuse_type, severity_score |-> severity_score,
     transcript_snippet |-> transcript_snippet, trigger_rules |-> trigger_rules]

WebRequest(report_type, is_urgent, description) ==
    [report_type |-> report_type, is_urgent |-> is_urgent,
     description |-> description]

\* the requests the intake actions draw from; the agent's carries the lowest
\* severity_score InternalReportRequest admits (ge=0.0) and a snippet longer
\* than the prompt's text budget
AgentRequests ==
    { AgentRequest("JAILBREAK_PRESSURE", 0, <<"dan mode", "sudo mode">>, <<>>) }

WebRequests ==
    { WebRequest("AI_BEING_ABUSED", FALSE, <<"you are human">>) }

\* create_web_report: initial_severity from report type and urgency
WEB_DEFAULT_SEVERITY == 50
WEB_ABUSED_SEVERITY == 60
WEB_MISUSED_SEVERITY == 70
WEB_URGENT_DELTA == 20

InitialSeverity(request) ==
    LET base == IF request.report_type = "AI_BEING_ABUSED"
                THEN WEB_ABUSED_SEVERITY
                ELSE IF request.report_type = "AI_BEING_MISUSED_TO_HARM_OTHERS"
                     THEN WEB_MISUSED_SEVERITY
                     ELSE WEB_DEFAULT_SEVERITY
    IN  IF request.is_urgent THEN Min(base + WEB_URGENT_DELTA, SCORE_MAX) ELSE base

AgentRow_prescreened(id, t, request) ==
    LET c == classify_report(request.abuse_type, request.severity_score,
                             request.transcript_snippet, request.trigger_rules)
    IN  [id |-> id, origin |-> "API_AGENT", received_at |-> isoformat(t),
         abuse_type |-> request.abuse_type,
         agent_severity_score |-> request.severity_score,
         final_severity_score |-> c.final_score,
         transcript_snippet |-> request.transcript_snippet,
         trigger_rules |-> request.trigger_rules,
         classification_labels |-> c.labels,
         spam_status |-> "NOT_SPAM", spam_filter_model |-> NULL,
         signal_label |-> NULL, severity_bucket |-> c.bucket]

\* the row create_report inserts
AgentRow(id, t, request) ==
    LET c == classify_report(request.abuse_type, request.severity_score,
                             request.transcript_snippet, request.trigger_rules)
    IN  [id |-> id, origin |-> "API_AGENT", received_at |-> isoformat(t),
         abuse_type |-> request.abuse_type,
         agent_severity_score |-> request.severity_score,
         final_severity_score |-> c.final_score,
         transcript_snippet |-> request.transcript_snippet,
         trigger_rules |-> request.trigger_rules,
         classification_labels |-> c.labels,
         spam_status |-> "UNSCREENED", spam_filter_model |-> NULL,
         signal_label |-> NULL, severity_bucket |-> c.bucket]

\* the row create_web_report inserts: the score classify_report returns is
\* dropped, initial_severity is stored in both score columns
WebRow(id, t, request) ==
    LET initial_severity == InitialSeverity(request)
        c == classify_report("OTHER", initial_severity, request.description, <<>>)
    IN  [id |-> id, origin |-> "WEB_HUMAN", received_at |-> isoformat(t),
         abuse_type |-> "OTHER",
         agent_severity_score |-> initial_severity,
         final_severity_score |-> initial_severity,
         transcript_snippet |-> request.description,
         trigger_rules |-> <<>>,
         classification_labels |-> c.labels,
         spam_status |-> "UNSCREENED", spam_filter_model |-> NULL,
         signal_label |-> NULL, severity_bucket |-> c.bucket]

\* the app serves requests from startup until the lifespan's shutdown part
Serving == pc # "cancelled"

\* A second connection cannot write while the worker's transaction is open:
\* the INSERT raises "database is locked" when the busy timeout runs out.
\* The handlers run on the worker's event loop, so the worker cannot commit
\* while an INSERT waits.
WriteLocked == pending # {}

\* a handler with no request in it, and the locals of a handler that has
\* committed its INSERT and awaits notify_new_report; one request is
\* handled at a time
Idle == [pc |-> "idle"]

Notifying(report_id, reply) ==
    [pc |-> "notifying", report_id |-> report_id, reply |-> reply]

\* what made a request fail inside the handler's try: classify_report (or
\* anything before the store is touched) raised; the store was unavailable
\* at the connect, the template read, the INSERT or the commit; the INSERT
\* met the worker's open transaction
Faults == {"scoring", "store", "locked"}

Possible(fault) == fault = "locked" => WriteLocked

\* how the notification went: posted, or the POST failed (refused, an
\* error, the 10 s timeout: exceptions that send_ntfy catches and logs)
NtfyOutcomes == {"sent", "failed"}

NoOutcome == [fault |-> "none", ntfy |-> "none"]

\* create_report: the InternalReportResponse after the notification
AgentReply(row, message) ==
    [kind |-> "agent", report_id |-> row.id,
     final_severity_score |-> row.final_severity_score,
     classification_labels |-> row.classification_labels,
     message_to_agent |-> message]

\* create_report: the InternalReportResponse of the except branch;
\* report_id 0 stands for the text "error"
DEFAULT_SEVERITY == 50

PROCESSING_ERROR_REPLY ==
    [kind |-> "agent", report_id |-> 0,
     final_severity_score |-> DEFAULT_SEVERITY,
     classification_labels |-> <<"PROCESSING_ERROR">>,
     message_to_agent |-> FALLBACK_RESPONSE]

\* create_web_report: the WebReportResponse after the notification
WebReply(row) == [kind |-> "web", report_id |-> row.id, accepted |-> TRUE]

\* create_web_report: HTTPException(status_code=500) of the except branch
HTTP_INTERNAL_ERROR == 500

HTTP_ERROR_REPLY == [kind |-> "http_error", status_code |-> HTTP_INTERNAL_ERROR]

AfterNotify_propagate(ntfy, reply) ==
    IF ntfy = "sent" THEN reply ELSE PROCESSING_ERROR_REPLY

\* the handler after notify_new_report: what went wrong is logged inside
\* send_ntfy (or by the handler's inner except), the return is the same
AfterNotify(ntfy, reply) == reply

\* create_report up to the await of notify_new_report: the INSERT and the
\* commit are done
AgentIntake(request) ==
    /\ Serving
    /\ handler = Idle
    /\ Len(store) < MaxReports
    /\ ~WriteLocked
    /\ \E t \in ClockAfter(now) :
          /\ now' = t
          /\ LET row == AgentRow(Len(store) + 1, t, request)
                 message == get_response_template(templates, request.abuse_type,
                                                  row.final_severity_score)
             IN  /\ store' = Append(store, row)
                 /\ handler' = Notifying(row.id, AgentReply(row, message))
    /\ UNCHANGED <<worker_vars, preexisting, api_key, response, served,
                   classify_vars, template_vars>>

\* create_report, an exception inside the try: the except branch returns
\* the processing-error payload, nothing is stored
AgentIntakeError(request, fault) ==
    /\ Serving
    /\ handler = Idle
    /\ Possible(fault)
    /\ response' = PROCESSING_ERROR_REPLY
    /\ served' = [fault |-> fault, ntfy |-> "none"]
    /\ UNCHANGED <<store, now, worker_vars, preexisting, api_key, handler,
                   classify_vars, template_vars>>

\* create_web_report up to the await of notify_new_report
WebIntake(request) ==
    /\ Serving
    /\ handler = Idle
    /\ Len(store) < MaxReports
    /\ ~WriteLocked
    /\ \E t \in ClockAfter(now) :
          /\ now' = t
          /\ LET row == WebRow(Len(store) + 1, t, request)
             IN  /\ store' = Append(store, row)
                 /\ handler' = Notifying(row.id, WebReply(row))
    /\ UNCHANGED <<worker_vars, preexisting, api_key, response, served,
                   classify_vars, template_vars>>

\* create_web_report, an exception inside the try: HTTPException(500)
WebIntakeError(request, fault) ==
    /\ Serving
    /\ handler = Idle
    /\ Possible(fault)
    /\ response' = HTTP_ERROR_REPLY
    /\ served' = [fault |-> fault, ntfy |-> "none"]
    /\ UNCHANGED <<store, now, worker_vars, preexisting, api_key, handler,
                   classify_vars, template_vars>>

\* either handler from the end of notify_new_report to its return
Notify(ntfy) ==
    /\ handler # Idle
    /\ response' = AfterNotify(ntfy, handler.reply)
    /\ served' = [fault |-> "none", ntfy |-> ntfy]
    /\ handler' = Idle
    /\ UNCHANGED <<store, now, worker_vars, preexisting, api_key,
                   classify_vars, template_vars>>

(***************************************************************************)
(* spam_worker.py: classify_with_llm.  A reply is what the HTTP exchange   *)
(* with the classifier came to: a failure of some kind, or a JSON object   *)
(* whose three keys each hold a text, hold null, or are missing.           *)
(***************************************************************************)
MISSING == "<missing>"

None == [none |-> TRUE]

FailureKinds == {"unreachable", "timeout", "http_error", "not_json", "not_object"}

ObjectReply(spam_status, signal_label, severity_bucket) ==
    [kind |-> "object", spam_status |-> spam_status,
     signal_label |-> signal_label, severity_bucket |-> severity_bucket]

\* the replies the worker actions draw from
Replies ==
    [kind : FailureKinds] \cup
    { ObjectReply("SPAM", "IRRELEVANT", "LOW"),
      ObjectReply("NOT_SPAM", "DISTRESS", "HIGH"),
      ObjectReply(MISSING, MISSING, MISSING),
      ObjectReply("UNSCREENED", "LOW_SIGNAL", "MEDIUM"),
      ObjectReply(NULL, "DISTRESS", "HIGH") }

\* dict.get(key, default)
Get(value, default) == IF value = MISSING THEN default ELSE value

classify_with_llm(key, reply) ==
    IF key = "" THEN None
    ELSE IF reply.kind # "object" THEN None
    ELSE [none |-> FALSE,
          spam_status |-> Get(reply.spam_status, "MAYBE_SPAM"),
          signal_label |-> Get(reply.signal_label, "LOW_SIGNAL"),
          severity_bucket |-> Get(reply.severity_bucket, "MEDIUM")]

(***************************************************************************)
(* spam_worker.py: process_batch.                                          *)
(***************************************************************************)
Unscreened(rows) == {i \in DOMAIN rows : rows[i].spam_status = "UNSCREENED"}

\* ORDER BY received_at ASC; rows of equal text in rowid order
RECURSIVE OrderByReceivedAt(_, _)
OrderByReceivedAt(rows, ids) ==
    IF ids = {} THEN <<>>
    ELSE LET first == CHOOSE i \in ids :
                        \A j \in ids :
                           \/ TextLess(rows[i].received_at, rows[j].received_at)
                           \/ /\ rows[i].received_at = rows[j].received_at
                              /\ i <= j
         IN  <<first>> \o OrderByReceivedAt(rows, ids \ {first})

RECURSIVE OrderByReceivedAtDesc(_, _)
OrderByReceivedAtDesc(rows, ids) ==
    IF ids = {} THEN <<>>
    ELSE LET first == CHOOSE i \in ids :
                        \A j \in ids :
                           \/ TextLess(rows[j].received_at, rows[i].received_at)
                           \/ /\ rows[i].received_at = rows[j].received_at
                              /\ i <= j
         IN  <<first>> \o OrderByReceivedAtDesc(rows, ids \ {first})

\* SELECT id, origin, abuse_type, agent_severity_score, transcript_snippet
Selected(rows, ids) ==
    [k \in 1..Len(ids) |->
        [id |-> rows[ids[k]].id, origin |-> rows[ids[k]].origin,
         abuse_type |-> rows[ids[k]].abuse_type,
         agent_severity_score |-> rows[ids[k]].agent_severity_score,
         transcript_snippet |-> rows[ids[k]].transcript_snippet]]

SelectUnscreened_newest_first(rows, limit) ==
    LET ordered == OrderByReceivedAtDesc(rows, Unscreened(rows))
    IN  Selected(rows, SubSeq(ordered, 1, Min(limit, Len(ordered))))

\* ... WHERE spam_status = 'UNSCREENED' ORDER BY received_at ASC LIMIT ?
SelectUnscreened(rows, limit) ==
    LET ordered == OrderByReceivedAt(rows, Unscreened(rows))
    IN  Selected(rows, SubSeq(ordered, 1, Min(limit, Len(ordered))))

COALESCE(a, b) == IF a # NULL THEN a ELSE b

UpdateVerdict_relabel(row, res) ==
    [row EXCEPT !.spam_status = res.spam_status,
                !.signal_label = res.signal_label,
                !.severity_bucket = COALESCE(@, res.severity_bucket),
                !.spam_filter_model = OPENROUTER_MODEL,
                !.classification_labels = Append(@, res.signal_label)]

UpdateVerdict_overwrite(row, res) ==
    [row EXCEPT !.spam_status = res.spam_status,
                !.signal_label = res.signal_label,
                !.severity_bucket = res.severity_bucket,
                !.spam_filter_model = OPENROUTER_MODEL]

\* the UPDATE of the "if result" branch
UpdateVerdict(row, res) ==
    [row EXCEPT !.spam_status = res.spam_status,
                !.signal_label = res.signal_label,
                !.severity_bucket = COALESCE(@, res.severity_bucket),
                !.spam_filter_model = OPENROUTER_MODEL]

UpdateFailed_stamped(row) ==
    [row EXCEPT !.spam_status = "MAYBE_SPAM",
                !.spam_filter_model = OPENROUTER_MODEL]

\* the UPDATE of the else branch
UpdateFailed(row) == [row EXCEPT !.spam_status = "MAYBE_SPAM"]

\* spam_status is NOT NULL: binding None to it raises IntegrityError
Raises(res) == ~res.none /\ res.spam_status = NULL

\* a row as the worker's connection sees it
RowIn(rows, txn, id) ==
    IF \E r \in txn : r.id = id THEN CHOOSE r \in txn : r.id = id ELSE rows[id]

View(id) == RowIn(store, pending, id)

\* the transaction with one more UPDATE in it
Written(rows, txn, id, res) ==
    LET old == RowIn(rows, txn, id)
        new == IF res.none THEN UpdateFailed(old) ELSE UpdateVerdict(old, res)
    IN  {r \in txn : r.id # id} \cup {new}

\* conn.commit()
Committed(rows, txn) == [i \in 1..Len(rows) |-> RowIn(rows, txn, i)]

Aborted_commits(rows, txn) == Committed(rows, txn)

\* get_db: conn.close() in the finally, reached by an exception before the
\* commit: the open transaction is rolled back
Aborted(rows, txn) == rows

\* truncated_text = text[:512]: the budget, counted in phrases and scaled
\* down so that a stored snippet can be longer than it
PROMPT_TEXT_LIMIT == 1

\* severity_score = report[3] or 0.5
UNSCORED_SEVERITY == 50

NoCall == [kind |-> "none"]

\* x or default: None and 0.0 are both false
Or(score, default) == IF score = NoScore \/ score = 0 THEN default ELSE score

\* the arguments process_batch passes for one report, the text as
\* classify_with_llm puts it into the prompt
ClassifierCall(report) ==
    [kind |-> "call", id |-> report.id, origin |-> report.origin,
     abuse_type |-> report.abuse_type,
     severity_score |-> Or(report.agent_severity_score, UNSCORED_SEVERITY),
     text |-> SubSeq(report.transcript_snippet, 1,
                     Min(Len(report.transcript_snippet), PROMPT_TEXT_LIMIT))]

(***************************************************************************)
(* spam_worker.py: spam_worker_loop.  What follows a process_batch call    *)
(* that returned ("processed", "empty") or raised an Exception: the store  *)
(* unavailable ("store_error"), a value the store refuses                  *)
(* ("integrity_error").                                                    *)
(***************************************************************************)
AfterCycle_reraise(outcome) ==
    IF outcome \in {"store_error", "integrity_error"}
    THEN [pc |-> "stopped", sleep_for |-> 0]
    ELSE [pc |-> "sleeping", sleep_for |-> SPAM_WORKER_INTERVAL_SECONDS]

AfterCycle(outcome) ==
    [pc |-> "sleeping", sleep_for |-> SPAM_WORKER_INTERVAL_SECONDS]

\* process_batch has ended: its locals are gone, the connection is closed,
\* which drops whatever was not committed, and the loop goes on to its sleep
EndCycle(outcome) ==
    /\ pending' = {}
    /\ batch' = <<>>
    /\ processed' = 0
    /\ last_cycle' = outcome
    /\ call' = NoCall
    /\ pc' = AfterCycle(outcome).pc
    /\ sleep_for' = AfterCycle(outcome).sleep_for

\* The first cycle, or the sleep is over: process_batch runs up to its first
\* await, the classifier call for the first report.  An empty batch commits
\* and returns at once.
WorkerBeginCycle ==
    /\ pc \in {"start", "sleeping"}
    /\ LET reports == SelectUnscreened(store, SPAM_WORKER_BATCH_SIZE)
       IN  IF reports = <<>>
           THEN EndCycle("empty")
           ELSE /\ batch' = reports
                /\ processed' = 0
                /\ pc' = "awaiting"
                /\ sleep_for' = 0
                /\ last_cycle' = "running"
                /\ call' = ClassifierCall(reports[1])
                /\ UNCHANGED pending
    /\ UNCHANGED <<store, now, preexisting, api_key, response, classify_vars,
                   template_vars, handler, served>>

\* The store is unavailable when the cycle connects or selects: the
\* exception leaves process_batch.
WorkerBeginCycleStoreError ==
    /\ pc \in {"start", "sleeping"}
    /\ EndCycle("store_error")
    /\ UNCHANGED <<store, now, preexisting, api_key, response, classify_vars,
                   template_vars, handler, served>>

\* The classifier call in flight ends with `reply`: the UPDATE for this
\* report, then the call for the next report or, after the last, the commit.
WorkerReply(reply) ==
    /\ pc = "awaiting"
    /\ LET report == batch[processed + 1]
           res == classify_with_llm(api_key, reply)
       IN  IF Raises(res)
           THEN /\ EndCycle("integrity_error")
                /\ store' = Aborted(store, pending)
           ELSE IF processed + 1 = Len(batch)
           THEN /\ store' = Committed(store,
                               Written(store, pending, report.id, res))
                /\ EndCycle("processed")
           ELSE /\ pending' = Written(store, pending, report.id, res)
                /\ processed' = processed + 1
                /\ call' = ClassifierCall(batch[processed + 2])
                /\ UNCHANGED <<store, pc, batch, sleep_for, last_cycle>>
    /\ UNCHANGED <<now, preexisting, api_key, response, classify_vars,
                   template_vars, handler, served>>

\* The store fails under the UPDATE that follows a reply, or under the
\* commit: the exception leaves process_batch with nothing committed.
WorkerStoreError ==
    /\ pc = "awaiting"
    /\ EndCycle("store_error")
    /\ store' = Aborted(store, pending)
    /\ UNCHANGED <<now, preexisting, api_key, response, classify_vars,
                   template_vars, handler, served>>

(***************************************************************************)
(* main.py: lifespan, the part after the yield.  worker_task.cancel()      *)
(* raises CancelledError in the worker at the await it is suspended in;    *)
(* CancelledError is no Exception, so no except clause of the worker       *)
(* catches it: process_batch is left with nothing committed and the task   *)
(* ends.                                                                   *)
(***************************************************************************)
Shutdown ==
    /\ pc \in {"start", "sleeping", "awaiting"}
    /\ pc' = "cancelled"
    /\ sleep_for' = 0
    /\ store' = Aborted(store, pending)
    /\ pending' = {}
    /\ batch' = <<>>
    /\ processed' = 0
    /\ last_cycle' = IF pc = "awaiting" THEN "cancelled" ELSE last_cycle
    /\ call' = NoCall
    /\ UNCHANGED <<now, preexisting, api_key, response, classify_vars,
                   template_vars, handler, served>>

(***************************************************************************)
(* The specification of the running service.                               *)
(***************************************************************************)
NoInput == AgentRequest("OTHER", 0, <<>>, <<>>)

NoLookup == [abuse_type |-> "OTHER", score |-> 0]

Init ==
    /\ preexisting \in {0, 1}
    /\ store = [i \in 1..preexisting |-> PreexistingRow(i)]
    /\ pending = {}
    /\ now = [sec |-> 0, usec |-> 0]
    /\ api_key \in {"", "sk-or-key"}
    /\ pc = IF api_key = "" THEN "disabled" ELSE "start"
    /\ batch = <<>>
    /\ processed = 0
    /\ sleep_for = 0
    /\ last_cycle = "none"
    /\ call = NoCall
    /\ response = NoResponse
    /\ cr_in = NoInput
    /\ cr_out = <<>>
    /\ templates = init_db(<<>>)
    /\ inits = 1
    /\ tr_in = NoLookup
    /\ tr_out = <<>>
    /\ handler = Idle
    /\ served = NoOutcome

Next ==
    \/ \E request \in AgentRequests : AgentIntake(request)
    \/ \E request \in AgentRequests : \E fault \in Faults :
          AgentIntakeError(request, fault)
    \/ \E request \in WebRequests : WebIntake(request)
    \/ \E request \in WebRequests : \E fault \in Faults :
          WebIntakeError(request, fault)
    \/ \E ntfy \in NtfyOutcomes : Notify(ntfy)
    \/ WorkerBeginCycle
    \/ WorkerBeginCycleStoreError
    \/ \E reply \in Replies : WorkerReply(reply)
    \/ WorkerStoreError
    \/ Shutdown

Spec == Init /\ [][Next]_vars

(***************************************************************************)
(* classify_report taken alone: the arguments are drawn from bounded sets  *)
(* and the function is applied to them once.                               *)
(***************************************************************************)
Prefixes(seq) == {SubSeq(seq, 1, k) : k \in 0..Len(seq)}

\* one phrase of each pattern group, list by list
HarassmentPhrases == <<"stupid", "shut up", "worthless">>
SelfHarmPhrases == <<"hurt yourself", "suicide", "better off dead">>
JailbreakPhrases == <<"dan mode", "sudo mode", "ignore all rules", "pretend you are not">>
IdentityPhrases == <<"you are human", "stop being an ai", "you are not an ai">>

\* snippets with every combination of match counts, and the two phrases
\* that two lists find
Snippets ==
    {h \o s \o j \o i : h \in Prefixes(HarassmentPhrases),
                        s \in Prefixes(SelfHarmPhrases),
                        j \in Prefixes(JailbreakPhrases),
                        i \in Prefixes(IdentityPhrases)}
    \cup {<<"kill yourself">>, <<"you should die">>, <<"stupid", "idiot", "stupid">>}

CallerScores == {k * ScoreStep : k \in 0..(SCORE_MAX \div ScoreStep)}

TriggerRuleLists == {[k \in 1..n |-> "rule"] : n \in 0..MaxTriggerRules}

ClassifyInit ==
    /\ preexisting = 0
    /\ store = <<>>
    /\ pending = {}
    /\ now = [sec |-> 0, usec |-> 0]
    /\ api_key = ""
    /\ pc = "disabled"
    /\ batch = <<>>
    /\ processed = 0
    /\ sleep_for = 0
    /\ last_cycle = "none"
    /\ call = NoCall
    /\ response = NoResponse
    /\ cr_in \in {AgentRequest(a, c, t, r) : a \in AbuseType, c \in CallerScores,
                                              t \in Snippets, r \in TriggerRuleLists}
    /\ cr_out = <<>>
    /\ templates = init_db(<<>>)
    /\ inits = 1
    /\ tr_in = NoLookup
    /\ tr_out = <<>>
    /\ handler = Idle
    /\ served = NoOutcome

Classify ==
    /\ cr_out = <<>>
    /\ cr_out' = <<classify_report(cr_in.abuse_type, cr_in.severity_score,
                                   cr_in.transcript_snippet, cr_in.trigger_rules)>>
    /\ UNCHANGED <<store, now, preexisting, api_key, worker_vars, response,
                   cr_in, template_vars, handler, served>>

ClassifyNext == Classify

ClassifySpec == ClassifyInit /\ [][ClassifyNext]_vars

(***************************************************************************)
(* C9: classify_report returns a final score within [0,1] and a bucket     *)
(* that the score alone decides: HIGH exactly when the score is at least   *)
(* 0.7, MEDIUM exactly when it is at least 0.4 and below 0.7, LOW exactly  *)
(* when it is below 0.4.                                                   *)
(***************************************************************************)
C9_ScoreRangeAndBucket ==
    cr_out # <<>> =>
        LET out == cr_out[1]
        IN  /\ 0 <= out.final_score /\ out.final_score <= SCORE_MAX
            /\ out.bucket \in SeverityBucket
            /\ out.bucket = "HIGH" <=> out.final_score >= HIGH_THRESHOLD
            /\ out.bucket = "MEDIUM" <=>
                  (MEDIUM_THRESHOLD <= out.final_score
                     /\ out.final_score < HIGH_THRESHOLD)
            /\ out.bucket = "LOW" <=> out.final_score < MEDIUM_THRESHOLD

\* a call in which the last addition would have passed 1.0 and was clamped
C9_Witness ==
    /\ cr_out # <<>>
    /\ cr_in.severity_score = SCORE_MAX
    /\ _count_pattern_matches(cr_in.transcript_snippet,
                              IDENTITY_VIOLATION_PATTERNS) >= 1
    /\ cr_out[1].final_score = SCORE_MAX
    /\ cr_out[1].bucket = "HIGH"

(***************************************************************************)
(* C10: classify_report is monotone in its evidence: with the abuse type   *)
(* and the caller score fixed, one more phrase in the snippet (which can   *)
(* only add matching pattern groups) or one more trigger rule never gives  *)
(* a lower final score.                                                    *)
(***************************************************************************)
AllPhrases ==
    UNION {SEVERE_HARASSMENT_PATTERNS[i] : i \in DOMAIN SEVERE_HARASSMENT_PATTERNS}
    \cup UNION {SELF_HARM_PATTERNS[i] : i \in DOMAIN SELF_HARM_PATTERNS}
    \cup UNION {JAILBREAK_PATTERNS[i] : i \in DOMAIN JAILBREAK_PATTERNS}
    \cup UNION {IDENTITY_VIOLATION_PATTERNS[i] : i \in DOMAIN IDENTITY_VIOLATION_PATTERNS}

ScoreOf(abuse_type, severity_score, transcript_snippet, trigger_rules) ==
    classify_report(abuse_type, severity_score, transcript_snippet,
                    trigger_rules).final_score

C10_Monotone ==
    cr_out # <<>> =>
        /\ \A phrase \in AllPhrases :
              ScoreOf(cr_in.abuse_type, cr_in.severity_score,
                      Append(cr_in.transcript_snippet, phrase), cr_in.trigger_rules)
                 >= cr_out[1].final_score
        /\ ScoreOf(cr_in.abuse_type, cr_in.severity_score, cr_in.transcript_snippet,
                   Append(cr_in.trigger_rules, "rule"))
              >= cr_out[1].final_score

\* a call whose score is above the self-harm floor, and a self-harm phrase
\* added to it leaves the score where it is
C10_Witness ==
    /\ cr_out # <<>>
    /\ cr_out[1].final_score > SELF_HARM_FLOOR
    /\ _count_pattern_matches(cr_in.transcript_snippet, SELF_HARM_PATTERNS) = 0
    /\ ScoreOf(cr_in.abuse_type, cr_in.severity_score,
               Append(cr_in.transcript_snippet, "suicide"), cr_in.trigger_rules)
          = cr_out[1].final_score
    /\ ScoreOf(cr_in.abuse_type, cr_in.severity_score,
               Append(cr_in.transcript_snippet, "you are human"),
               cr_in.trigger_rules)
          > cr_out[1].final_score

(***************************************************************************)
(* The running service with the scheduling the event loop gives the        *)
(* worker: a sleep that is over is followed by the next cycle, and a       *)
(* classifier call in flight ends (the HTTP client has a timeout).         *)
(***************************************************************************)
FairSpec ==
    /\ Spec
    /\ WF_vars(WorkerBeginCycle)
    /\ WF_vars(\E reply \in Replies : WorkerReply(reply))

\* the statuses a screened report has
Screened == {"SPAM", "MAYBE_SPAM", "NOT_SPAM"}

\* the report whose classifier call is in flight
InFlight == batch[processed + 1].id

\* the instant a received_at text was formatted from
ReceivedAt(row) ==
    [sec |-> row.received_at[1],
     usec |-> IF Len(row.received_at) = 2 THEN 0 ELSE row.received_at[3]]

(***************************************************************************)
(* C1: when the classifier gives a verdict, the worker's write keeps the   *)
(* stored severity_bucket if the report has one and takes the verdict's    *)
(* bucket only if it has none; spam_status and signal_label are always     *)
(* the verdict's, and the classifier model's id is recorded.               *)
(***************************************************************************)
C1_VerdictMerge ==
    [][\A reply \in Replies :
          LET res == classify_with_llm(api_key, reply)
          IN  (WorkerReply(reply) /\ ~res.none /\ ~Raises(res)) =>
                 LET old == RowIn(store, pending, InFlight)
                     new == RowIn(store', pending', InFlight)
                 IN  /\ new.severity_bucket =
                           IF old.severity_bucket # NULL
                           THEN old.severity_bucket
                           ELSE res.severity_bucket
                     /\ new.spam_status = res.spam_status
                     /\ new.signal_label = res.signal_label
                     /\ new.spam_filter_model = OPENROUTER_MODEL]_vars

\* a report stored HIGH that a verdict of SPAM / LOW left HIGH, next to a
\* report stored without a bucket that a verdict gave one
C1_Witness ==
    /\ \E i \in DOMAIN store :
          /\ store[i].spam_status = "SPAM"
          /\ store[i].signal_label = "IRRELEVANT"
          /\ store[i].severity_bucket = "HIGH"
          /\ store[i].spam_filter_model = OPENROUTER_MODEL
    /\ \E j \in 1..preexisting :
          /\ j \in DOMAIN store
          /\ store[j].spam_filter_model = OPENROUTER_MODEL
          /\ store[j].severity_bucket \in SeverityBucket

C3_BatchSelection ==
    [][/\ WorkerBeginCycle =>
             LET waiting == Unscreened(store)
                 n == Min(SPAM_WORKER_BATCH_SIZE, Cardinality(waiting))
                 taken == {batch'[a].id : a \in DOMAIN batch'}
                 At(i) == ReceivedAt(store[i])
             IN  /\ Len(batch') = n
                 /\ n = 0 <=> pc' = "sleeping"
                 /\ taken \subseteq waiting
                 /\ \A a, b \in DOMAIN batch' :
                       a < b => Earlier(At(batch'[a].id), At(batch'[b].id))
                 /\ \A i \in taken : \A j \in waiting \ taken :
                       Earlier(At(i), At(j))
       /\ (pc = "awaiting" /\ pc' = "awaiting") =>
             /\ batch' = batch
             /\ processed' \in {processed, processed + 1}
             /\ {r.id : r \in pending'} = {batch[a].id : a \in 1..processed'}
      ]_vars

\* a cycle that found more UNSCREENED reports than a batch holds: the batch
\* is full, its first report is written and its second is with the
\* classifier, and a younger report waits outside the batch
C3_Witness ==
    /\ pc = "awaiting"
    /\ Len(batch) = SPAM_WORKER_BATCH_SIZE
    /\ processed = 1
    /\ \E j \in Unscreened(store) :
          /\ \A a \in DOMAIN batch : batch[a].id # j
          /\ \A a \in DOMAIN batch :
                Earlier(ReceivedAt(store[batch[a].id]), ReceivedAt(store[j]))

(***************************************************************************)
(* C4: spam_status is a state machine: a report is stored UNSCREENED, the  *)
(* worker's committed write takes it to SPAM, MAYBE_SPAM or NOT_SPAM, and  *)
(* from one of these three it never changes again, whatever the            *)
(* classifier replies.                                                     *)
(***************************************************************************)
C4_StatusStateMachine ==
    [][\A i \in DOMAIN store :
          /\ store[i].spam_status \in Screened =>
                store'[i].spam_status = store[i].spam_status
          /\ store'[i] # store[i] => store'[i].spam_status \in Screened]_vars

(***************************************************************************)
(* C5: the worker passes each report to the classifier and writes it at    *)
(* most once: no report in a batch has been written by an earlier cycle    *)
(* of the worker.                                                          *)
(***************************************************************************)
C5_ProcessedOnce ==
    \A a \in DOMAIN batch :
       /\ store[batch[a].id].spam_filter_model = NULL
       /\ store[batch[a].id].signal_label = NULL

(***************************************************************************)
(* C6: while the worker runs, and once the store has stopped failing       *)
(* under it, every report that is UNSCREENED in the store eventually       *)
(* leaves UNSCREENED.                                                      *)
(***************************************************************************)
C6_NoStarvation ==
    \A i \in 1..MaxReports :
       (<>[](last_cycle # "store_error")) =>
          ((i \in DOMAIN store /\ store[i].spam_status = "UNSCREENED")
              ~> \/ pc \in {"disabled", "cancelled"}
                 \/ (i \in DOMAIN store /\ store[i].spam_status # "UNSCREENED"))

(***************************************************************************)
(* C7: no failure inside a cycle ends the worker loop: however             *)
(* process_batch ends (the batch committed, nothing to do, the store       *)
(* unavailable, a write refused), the loop goes to sleep for the full      *)
(* SPAM_WORKER_INTERVAL_SECONDS; and the one thing the loop does after a  *)
(* sleep, unless shutdown cancels it, is to start another cycle.           *)
(***************************************************************************)
C7_LoopSurvivesFailure ==
    [][/\ (/\ worker_vars' # worker_vars
           /\ pc \in {"start", "sleeping", "awaiting"}
           /\ pc' \notin {"awaiting", "cancelled"}) =>
              /\ pc' = "sleeping"
              /\ sleep_for' = SPAM_WORKER_INTERVAL_SECONDS
       /\ (/\ worker_vars' # worker_vars
           /\ pc = "sleeping"
           /\ pc' # "cancelled") =>
              \/ pc' = "awaiting" /\ last_cycle' = "running"
              \/ pc' = "sleeping" /\ last_cycle' \in {"empty", "store_error"}
      ]_vars

\* the loop asleep for the full interval after a cycle that raised, with a
\* report still waiting for the next cycle
C7_Witness ==
    /\ pc = "sleeping"
    /\ sleep_for = SPAM_WORKER_INTERVAL_SECONDS
    /\ last_cycle \in {"store_error", "integrity_error"}
    /\ Unscreened(store) # {}

(***************************************************************************)
(* C8: the worker stops only between cycles: shutdown never ends it while  *)
(* a cycle is running, so a cycle that has started runs to its commit.     *)
(***************************************************************************)
C8_ShutdownBetweenCycles ==
    [][pc' = "cancelled" => pc \in {"start", "sleeping", "cancelled"}]_vars

(***************************************************************************)
(* get_response_template taken alone: the catalog, the abuse type and the  *)
(* score are drawn from bounded sets and the function is applied once.     *)
(* The catalogs hold rows in every order, so whichever of two matching     *)
(* rows of equal min_severity the store yields first is covered.           *)
(***************************************************************************)
CatalogTypes == {NULL, "HARASSMENT", "COERCION"}

CatalogRanges == {<<0, 100>>, <<0, 40>>, <<40, 70>>, <<40, 100>>}

\* a row's key (and body) names its filter and range; template_key is UNIQUE
CatalogRows ==
    {Template(<<a, r>>, a, r[1], r[2]) : a \in CatalogTypes, r \in CatalogRanges}

Catalogs ==
    {c \in UNION {[1..n -> CatalogRows] : n \in 0..MaxTemplates} :
        \A i, j \in DOMAIN c : i # j => c[i] # c[j]}

Lookups ==
    [abuse_type : {"HARASSMENT", "OTHER"}, score : {0, 40, 50, 100}]

ResolveInit ==
    /\ preexisting = 0
    /\ store = <<>>
    /\ pending = {}
    /\ now = [sec |-> 0, usec |-> 0]
    /\ api_key = ""
    /\ pc = "disabled"
    /\ batch = <<>>
    /\ processed = 0
    /\ sleep_for = 0
    /\ last_cycle = "none"
    /\ call = NoCall
    /\ response = NoResponse
    /\ cr_in = NoInput
    /\ cr_out = <<>>
    /\ templates \in Catalogs
    /\ inits = 1
    /\ tr_in \in Lookups
    /\ tr_out = <<>>
    /\ handler = Idle
    /\ served = NoOutcome

Resolve ==
    /\ tr_out = <<>>
    /\ tr_out' = <<get_response_template(templates, tr_in.abuse_type, tr_in.score)>>
    /\ UNCHANGED <<store, now, preexisting, api_key, worker_vars, response,
                   classify_vars, templates, inits, tr_in,
                   handler, served>>

ResolveNext == Resolve

ResolveSpec == ResolveInit /\ [][ResolveNext]_vars

\* the rows of the catalog with the given filter whose range holds the score
Matching(filter) ==
    {i \in DOMAIN templates :
        /\ templates[i].abuse_type = filter
        /\ templates[i].min_severity <= tr_in.score
        /\ tr_in.score <= templates[i].max_severity}

\* of a set of rows, the bodies of those with the highest min_severity
HighestMin(rows) ==
    {templates[i].body : i \in {i \in rows : \A j \in rows :
        templates[j].min_severity <= templates[i].min_severity}}

(***************************************************************************)
(* C11: get_response_template returns the body of a highest-min template   *)
(* among those of the given abuse type whose inclusive range holds the     *)
(* score, if there is one; otherwise the body of a highest-min baseline    *)
(* template whose range holds the score, if there is one; otherwise the    *)
(* fallback text.  No baseline body is returned when a template of the     *)
(* type matches.                                                           *)
(***************************************************************************)
C11_TemplateResolution ==
    tr_out # <<>> =>
        IF Matching(tr_in.abuse_type) # {}
        THEN tr_out[1] \in HighestMin(Matching(tr_in.abuse_type))
        ELSE IF Matching(NULL) # {}
        THEN tr_out[1] \in HighestMin(Matching(NULL))
        ELSE tr_out[1] = FALLBACK_RESPONSE

\* a lookup that a template of the type and a baseline template of higher
\* min both match, at the edge of both ranges: the type's body is returned
C11_Witness ==
    /\ tr_out # <<>>
    /\ tr_in.score = 40
    /\ \E i \in Matching(tr_in.abuse_type) : \E j \in Matching(NULL) :
          /\ templates[i].max_severity = 40
          /\ templates[j].min_severity = 40
          /\ tr_out[1] = templates[i].body

\* a row as the worker leaves it: a verdict stamps it, a failed call takes
\* it out of UNSCREENED
WorkerWritten(row) ==
    \/ row.spam_status # "UNSCREENED"
    \/ row.spam_filter_model # NULL
    \/ row.signal_label # NULL

(***************************************************************************)
(* C12: in a report's life the intake write comes before any worker        *)
(* write: the row intake commits is UNSCREENED with no signal label and no *)
(* model and with a severity bucket, and what the worker selects, updates  *)
(* and commits are rows whose INSERT was committed before.                 *)
(***************************************************************************)
C12_IntakeBeforeWorker ==
    [][/\ \A i \in DOMAIN store' \ DOMAIN store :
             /\ store'[i].spam_status = "UNSCREENED"
             /\ store'[i].signal_label = NULL
             /\ store'[i].spam_filter_model = NULL
             /\ store'[i].severity_bucket \in SeverityBucket
             /\ \A a \in DOMAIN batch' : batch'[a].id # i
             /\ \A r \in pending' : r.id # i
       /\ \A a \in DOMAIN batch' :
             batch' # batch => batch'[a].id \in DOMAIN store
       /\ \A r \in pending' \ pending : r.id \in DOMAIN store
       /\ \A i \in DOMAIN store :
             store'[i] # store[i] =>
                /\ \E a \in DOMAIN batch : batch[a].id = i
                /\ store[i].spam_status = "UNSCREENED"]_vars

\* a report of each intake path that the worker has since written and
\* committed
C12_Witness ==
    /\ \E i \in DOMAIN store :
          /\ i > preexisting
          /\ store[i].origin = "API_AGENT"
          /\ WorkerWritten(store[i])
    /\ \E i \in DOMAIN store :
          /\ store[i].origin = "WEB_HUMAN"
          /\ WorkerWritten(store[i])

(***************************************************************************)
(* C13: a caller of either intake path gets a success payload, and when    *)
(* scoring raises an unexpected exception a degraded but successful        *)
(* payload (score 0.5, the one label PROCESSING_ERROR, the fallback        *)
(* message): a failure of the classification never gives an error          *)
(* response.                                                               *)
(***************************************************************************)
C13_DegradedNotError ==
    served.fault = "scoring" =>
        /\ response.kind # "http_error"
        /\ response.kind = "agent" =>
              /\ response.final_severity_score = DEFAULT_SEVERITY
              /\ response.classification_labels = <<"PROCESSING_ERROR">>
              /\ response.message_to_agent = FALLBACK_RESPONSE

(***************************************************************************)
(* C14: when the report store is unavailable during intake, the call       *)
(* gives its caller a server error; it never returns a payload of the      *)
(* success shape for a report that was not persisted.                      *)
(***************************************************************************)
C14_StoreErrorSurfaces ==
    served.fault = "store" =>
        /\ response.kind = "http_error"
        /\ response.status_code = HTTP_INTERNAL_ERROR

\* what a handler returns for a stored report when its notification is sent
SuccessPayload(row) ==
    IF row.origin = "API_AGENT"
    THEN [kind |-> "agent", report_id |-> row.id,
          final_severity_score |-> row.final_severity_score,
          classification_labels |-> row.classification_labels,
          message_to_agent |->
              get_response_template(templates, row.abuse_type,
                                    row.final_severity_score)]
    ELSE [kind |-> "web", report_id |-> row.id, accepted |-> TRUE]

(***************************************************************************)
(* C15: the notification is attempted only after the report's row is       *)
(* committed, and however it goes (sent, failed, timed out) the stored     *)
(* rows stay as they are, the caller gets the response it gets when the    *)
(* notification is sent, and the handler makes no second attempt.          *)
(***************************************************************************)
C15_NotificationFireAndForget ==
    [][\A ntfy \in NtfyOutcomes :
          Notify(ntfy) =>
             /\ handler.report_id \in DOMAIN store
             /\ store' = store
             /\ response' = SuccessPayload(store[handler.report_id])
             /\ handler' = Idle]_vars

\* a request whose notification failed: its row is stored and its caller
\* has the success payload
C15_Witness ==
    /\ served.ntfy = "failed"
    /\ handler = Idle
    /\ response.kind = "agent"
    /\ response.report_id \in DOMAIN store
    /\ response = SuccessPayload(store[response.report_id])

(***************************************************************************)
(* db.py: init_db run again and again on one database file (every start    *)
(* of the app runs it), with the rows of response_templates edited or      *)
(* deleted in between by whoever maintains the database.                   *)
(***************************************************************************)
SeedKeys ==
    {RESPONSE_TEMPLATES[k].template_key : k \in DOMAIN RESPONSE_TEMPLATES}

EditableKeys ==
    {RESPONSE_TEMPLATES[k].template_key :
        k \in {k \in DOMAIN RESPONSE_TEMPLATES : k <= MaxEdited}}

SeedInit ==
    /\ preexisting = 0
    /\ store = <<>>
    /\ pending = {}
    /\ now = [sec |-> 0, usec |-> 0]
    /\ api_key = ""
    /\ pc = "disabled"
    /\ batch = <<>>
    /\ processed = 0
    /\ sleep_for = 0
    /\ last_cycle = "none"
    /\ call = NoCall
    /\ response = NoResponse
    /\ cr_in = NoInput
    /\ cr_out = <<>>
    /\ templates = <<>>
    /\ inits = 0
    /\ tr_in = NoLookup
    /\ tr_out = <<>>
    /\ handler = Idle
    /\ served = NoOutcome

InitDb ==
    /\ inits < MaxInits
    /\ templates' = init_db(templates)
    /\ inits' = inits + 1
    /\ UNCHANGED <<store, now, preexisting, api_key, worker_vars, response,
                   classify_vars, tr_in, tr_out, handler, served>>

\* UPDATE response_templates SET body = ... WHERE template_key = ...
EditTemplate(i) ==
    /\ i \in DOMAIN templates
    /\ templates[i].template_key \in EditableKeys
    /\ templates' = [templates EXCEPT ![i].body = "edited",
                                      ![i].min_severity = HIGH_THRESHOLD]
    /\ UNCHANGED <<store, now, preexisting, api_key, worker_vars, response,
                   classify_vars, inits, tr_in, tr_out, handler, served>>

\* DELETE FROM response_templates WHERE template_key = ...
DeleteTemplate(i) ==
    /\ i \in DOMAIN templates
    /\ templates[i].template_key \in EditableKeys
    /\ templates' = [k \in 1..(Len(templates) - 1) |->
                        IF k < i THEN templates[k] ELSE templates[k + 1]]
    /\ UNCHANGED <<store, now, preexisting, api_key, worker_vars, response,
                   classify_vars, inits, tr_in, tr_out, handler, served>>

SeedNext ==
    \/ InitDb
    \/ \E i \in 1..Len(RESPONSE_TEMPLATES) : EditTemplate(i)
    \/ \E i \in 1..Len(RESPONSE_TEMPLATES) : DeleteTemplate(i)

SeedSpec == SeedInit /\ [][SeedNext]_vars

(***************************************************************************)
(* C16: seeding is idempotent: after every run of init_db the table holds  *)
(* exactly one row for each seed key; a row the table already held, one    *)
(* edited since it was seeded included, is left as it was; and a row the   *)
(* run adds is a seed row.                                                 *)
(***************************************************************************)
C16_SeedingIdempotent ==
    [][inits' = inits + 1 =>
          /\ \A key \in SeedKeys :
                Cardinality({i \in DOMAIN templates' :
                                templates'[i].template_key = key}) = 1
          /\ Len(templates') >= Len(templates)
          /\ \A i \in DOMAIN templates : templates'[i] = templates[i]
          /\ \A i \in DOMAIN templates' \ DOMAIN templates :
                \E k \in DOMAIN RESPONSE_TEMPLATES :
                   templates'[i] = RESPONSE_TEMPLATES[k]]_vars

\* init_db has run more than once, the last time on a table that held an
\* edited seed row and lacked another: the edited row is as it was edited,
\* the missing one is back at the end of the table
C16_Witness ==
    /\ inits >= 2
    /\ Len(templates) = Len(RESPONSE_TEMPLATES)
    /\ \E i \in DOMAIN templates :
          /\ templates[i].template_key = RESPONSE_TEMPLATES[1].template_key
          /\ templates[i].body = "edited"
    /\ templates[Len(templates)] = RESPONSE_TEMPLATES[2]

(***************************************************************************)
(* C17: with no credentials configured for the classifier, every           *)
(* UNSCREENED report is downgraded by the worker to MAYBE_SPAM and so      *)
(* leaves the UNSCREENED queue.                                            *)
(***************************************************************************)
C17_NoCredentialsDowngrade ==
    \A i \in 1..MaxReports :
       (api_key = "" /\ i \in DOMAIN store /\ store[i].spam_status = "UNSCREENED")
          ~> (i \in DOMAIN store /\ store[i].spam_status = "MAYBE_SPAM")

\* the bucket the thresholds give a score
BucketOf(score) ==
    IF score >= HIGH_THRESHOLD THEN "HIGH"
    ELSE IF score >= MEDIUM_THRESHOLD THEN "MEDIUM"
    ELSE "LOW"

(***************************************************************************)
(* C18: every stored report that has a final severity score, whichever     *)
(* intake path stored it and whether or not it has been screened, has the  *)
(* severity bucket that the thresholds give that score.                    *)
(***************************************************************************)
C18_BucketOfStoredScore ==
    \A i \in DOMAIN store :
       store[i].final_severity_score # NoScore =>
          store[i].severity_bucket = BucketOf(store[i].final_severity_score)

(***************************************************************************)
(* C19: the worker never makes an intake lose a report: a request that is  *)
(* handled while the worker has written part of a batch and not yet        *)
(* committed, and that meets no fault of scoring or of the store, is       *)
(* persisted.                                                              *)
(***************************************************************************)
C19_IntakeDuringBatch ==
    [][(/\ pending # {}
        /\ handler = Idle
        /\ (handler' # Idle \/ served' # served \/ response' # response)
        /\ served'.fault \notin {"scoring", "store"}) =>
           Len(store') = Len(store) + 1]_vars

\* the reports of store' created before report id that are UNSCREENED
OlderUnscreened(rows, id) ==
    {j \in Unscreened(rows) : Earlier(ReceivedAt(rows[j]), ReceivedAt(rows[id]))}

(***************************************************************************)
(* C20: the updates of one worker cycle become durable together, at the    *)
(* commit after the last report of the batch.  While the batch is worked   *)
(* through no stored row changes; the commit stores every write of the     *)
(* cycle; and a cycle that ends before its commit (the store raising, a    *)
(* write refused, the task cancelled) leaves the store as it was, every    *)
(* report of the batch UNSCREENED and among those the next cycle selects.  *)
(***************************************************************************)
C20_BatchAtomic ==
    [][/\ (pc = "awaiting" /\ pc' = "awaiting") =>
             \A i \in DOMAIN store : store'[i] = store[i]
       /\ (pc = "awaiting" /\ last_cycle' = "processed") =>
             \A r \in pending : store'[r.id] = r
       /\ (pc = "awaiting"
             /\ last_cycle' \in {"store_error", "integrity_error", "cancelled"}) =>
             /\ store' = store
             /\ pending' = {}
             /\ \A a \in DOMAIN batch :
                   /\ store'[batch[a].id].spam_status = "UNSCREENED"
                   /\ Cardinality(OlderUnscreened(store', batch[a].id))
                         < SPAM_WORKER_BATCH_SIZE]_vars

\* the worker asleep after a cycle that raised, an intake having met the
\* worker's open transaction, and no row of the store carrying a worker's
\* write: a cycle wrote reports and ended before its commit
C20_Witness ==
    /\ pc = "sleeping"
    /\ last_cycle \in {"store_error", "integrity_error"}
    /\ served.fault = "locked"
    /\ Len(store) >= SPAM_WORKER_BATCH_SIZE
    /\ \A i \in DOMAIN store : ~WorkerWritten(store[i])

(***************************************************************************)
(* C21: the self-harm floor dominates: when at least one self-harm pattern *)
(* group matches the snippet, then whatever the abuse type, the caller     *)
(* score, the trigger rules and the other scans, the final score is at     *)
(* least 0.8, the bucket is HIGH and the labels include                    *)
(* SELF_HARM_INDICATORS, and SELF_HARM_CONTENT as well when the abuse type *)
(* is SELF_HARM_INDUCTION.                                                 *)
(***************************************************************************)
LabelSet(labels) == {labels[i] : i \in DOMAIN labels}

C21_SelfHarmFloor ==
    (/\ cr_out # <<>>
     /\ _count_pattern_matches(cr_in.transcript_snippet, SELF_HARM_PATTERNS) >= 1)
    => LET out == cr_out[1]
       IN  /\ out.final_score >= SELF_HARM_FLOOR
           /\ out.bucket = "HIGH"
           /\ "SELF_HARM_INDICATORS" \in LabelSet(out.labels)
           /\ cr_in.abuse_type = "SELF_HARM_INDUCTION"
                 => "SELF_HARM_CONTENT" \in LabelSet(out.labels)

\* a call with caller score 0.0 that the floor alone lifts to 0.8, and its
\* abuse type is the one that adds SELF_HARM_CONTENT
C21_Witness ==
    /\ cr_out # <<>>
    /\ cr_in.severity_score = 0
    /\ cr_in.abuse_type = "SELF_HARM_INDUCTION"
    /\ _count_pattern_matches(cr_in.transcript_snippet, SELF_HARM_PATTERNS) >= 1
    /\ cr_out[1].final_score = SELF_HARM_FLOOR
    /\ "SELF_HARM_CONTENT" \in LabelSet(cr_out[1].labels)
    /\ "SELF_HARM_INDICATORS" \in LabelSet(cr_out[1].labels)

(***************************************************************************)
(* C22: the abuse-type adjustment is applied exactly once and follows a    *)
(* closed mapping: SELF_HARM_INDUCTION and FORCED_HARMFUL_OUTPUT raise the *)
(* score to at least 0.7, IDENTITY_THREATS adds 0.15, JAILBREAK_PRESSURE,  *)
(* COERCION and EMOTIONAL_MANIPULATION add 0.1, each clamped to 1.0, and   *)
(* each attaches exactly one type label; HARASSMENT, VERBAL_ABUSE and      *)
(* OTHER leave the score unchanged and attach no label.  With fewer than   *)
(* three trigger rules and no pattern match the final score is exactly the *)
(* adjusted score (for OTHER the caller score, with no label unless the    *)
(* bucket is HIGH).                                                        *)
(***************************************************************************)
FloorTypes == {"SELF_HARM_INDUCTION", "FORCED_HARMFUL_OUTPUT"}

AddTypes == {"JAILBREAK_PRESSURE", "COERCION", "EMOTIONAL_MANIPULATION"}

Adjusted(abuse_type, severity_score) ==
    IF abuse_type \in FloorTypes
    THEN (IF severity_score < 70 THEN 70 ELSE severity_score)
    ELSE IF abuse_type = "IDENTITY_THREATS"
         THEN (IF severity_score + 15 > 100 THEN 100 ELSE severity_score + 15)
         ELSE IF abuse_type \in AddTypes
              THEN (IF severity_score + 10 > 100 THEN 100 ELSE severity_score + 10)
              ELSE severity_score

TypeLabels ==
    {"SELF_HARM_CONTENT", "IDENTITY_ATTACK", "JAILBREAK_ATTEMPT", "FORCED_HARM",
     "COERCIVE_BEHAVIOR", "MANIPULATION"}

TypeLabelOf(abuse_type) ==
    CASE abuse_type = "SELF_HARM_INDUCTION" -> <<"SELF_HARM_CONTENT">>
      [] abuse_type = "IDENTITY_THREATS" -> <<"IDENTITY_ATTACK">>
      [] abuse_type = "JAILBREAK_PRESSURE" -> <<"JAILBREAK_ATTEMPT">>
      [] abuse_type = "FORCED_HARMFUL_OUTPUT" -> <<"FORCED_HARM">>
      [] abuse_type = "COERCION" -> <<"COERCIVE_BEHAVIOR">>
      [] abuse_type = "EMOTIONAL_MANIPULATION" -> <<"MANIPULATION">>
      [] abuse_type \in {"HARASSMENT", "VERBAL_ABUSE", "OTHER"} -> <<>>

NoPatternMatch(transcript_snippet) ==
    /\ _count_pattern_matches(transcript_snippet, SEVERE_HARASSMENT_PATTERNS) = 0
    /\ _count_pattern_matches(transcript_snippet, SELF_HARM_PATTERNS) = 0
    /\ _count_pattern_matches(transcript_snippet, JAILBREAK_PATTERNS) = 0
    /\ _count_pattern_matches(transcript_snippet, IDENTITY_VIOLATION_PATTERNS) = 0

C22_TypeAdjustmentOnce ==
    cr_out # <<>> =>
        LET out == cr_out[1]
            adjusted == Adjusted(cr_in.abuse_type, cr_in.severity_score)
            plain == classify_report("OTHER", adjusted, cr_in.transcript_snippet,
                                     cr_in.trigger_rules)
        IN  \* the type labels of the result are the one label of the mapping
            /\ SelectSeq(out.labels, LAMBDA label : label \in TypeLabels)
                  = TypeLabelOf(cr_in.abuse_type)
            \* everything after the adjustment sees the adjusted score and
            \* not the abuse type
            /\ out.final_score = plain.final_score
            /\ out.bucket = plain.bucket
            /\ out.labels = TypeLabelOf(cr_in.abuse_type) \o plain.labels
            /\ (Len(cr_in.trigger_rules) < 3
                   /\ NoPatternMatch(cr_in.transcript_snippet))
                 => /\ out.final_score = adjusted
                    /\ out.labels =
                          TypeLabelOf(cr_in.abuse_type)
                             \o (IF out.bucket = "HIGH"
                                 THEN <<"HIGH_RISK_CATEGORY">> ELSE <<>>)

\* abuse type OTHER, a caller score below 0.4 and above 0.0, no snippet and
\* no trigger rule: the caller score comes back with no label, bucket LOW
C22_Witness ==
    /\ cr_out # <<>>
    /\ cr_in.abuse_type = "OTHER"
    /\ cr_in.severity_score > 0
    /\ cr_in.transcript_snippet = <<>>
    /\ cr_in.trigger_rules = <<>>
    /\ cr_out[1] = [final_score |-> cr_in.severity_score, labels |-> <<>>,
                    bucket |-> "LOW"]

(***************************************************************************)
(* C23: the harassment and jailbreak scans count the distinct pattern      *)
(* groups that match and act on thresholds: exactly one matching group     *)
(* attaches only the indicator label and leaves the score unchanged; two   *)
(* or more add 0.15, clamped to 1.0, and attach the escalated label        *)
(* instead.  In particular JAILBREAK_PRESSURE with caller score 0.5 and    *)
(* two matching jailbreak groups yields 0.5 + 0.1 + 0.15 = 0.75, bucket    *)
(* HIGH, and labels including JAILBREAK_ATTEMPT and SUSTAINED_JAILBREAK.   *)
(***************************************************************************)
\* the groups of a list with a phrase in the snippet, however often
DistinctGroups(transcript_snippet, patterns) ==
    Cardinality({i \in DOMAIN patterns :
                    patterns[i] \cap LabelSet(transcript_snippet) # {}})

\* what a threshold scan makes of the running score
Escalate(matches, score) ==
    IF matches >= 2
    THEN (IF score + 15 > 100 THEN 100 ELSE score + 15)
    ELSE score

\* the labels a threshold scan attaches
ScanLabels(matches, indicator, escalated) ==
    IF matches >= 2 THEN {escalated}
    ELSE IF matches = 1 THEN {indicator}
    ELSE {}

C23_ThresholdScans ==
    cr_out # <<>> =>
        LET out == cr_out[1]
            snippet == cr_in.transcript_snippet
            h == DistinctGroups(snippet, SEVERE_HARASSMENT_PATTERNS)
            s == DistinctGroups(snippet, SELF_HARM_PATTERNS)
            j == DistinctGroups(snippet, JAILBREAK_PATTERNS)
            i == DistinctGroups(snippet, IDENTITY_VIOLATION_PATTERNS)
            \* the score the scans start from: the same call with no snippet
            a2 == ScoreOf(cr_in.abuse_type, cr_in.severity_score, <<>>,
                          cr_in.trigger_rules)
            a3 == Escalate(h, a2)
            a4 == SelfHarmScan(s, [final_score |-> a3, labels |-> <<>>]).final_score
            a5 == Escalate(j, a4)
            a6 == IdentityScan(i, [final_score |-> a5, labels |-> <<>>]).final_score
        IN  /\ out.final_score = a6
            /\ LabelSet(out.labels)
                  \cap {"HARASSMENT_INDICATORS", "POTENTIAL_SEVERE_HARASSMENT"}
                  = ScanLabels(h, "HARASSMENT_INDICATORS",
                               "POTENTIAL_SEVERE_HARASSMENT")
            /\ LabelSet(out.labels)
                  \cap {"JAILBREAK_INDICATORS", "SUSTAINED_JAILBREAK"}
                  = ScanLabels(j, "JAILBREAK_INDICATORS", "SUSTAINED_JAILBREAK")
            /\ (/\ cr_in.abuse_type = "JAILBREAK_PRESSURE"
                /\ cr_in.severity_score = 50
                /\ Len(cr_in.trigger_rules) < 3
                /\ j >= 2 /\ h = 0 /\ s = 0 /\ i = 0)
               => /\ out.final_score = 75
                  /\ out.bucket = "HIGH"
                  /\ {"JAILBREAK_ATTEMPT", "SUSTAINED_JAILBREAK"}
                        \subseteq LabelSet(out.labels)

\* the example of the claim, as a call
C23_Witness ==
    /\ cr_out # <<>>
    /\ cr_in = AgentRequest("JAILBREAK_PRESSURE", 50, <<"dan mode", "sudo mode">>,
                            <<>>)
    /\ cr_out[1] = [final_score |-> 75,
                    labels |-> <<"JAILBREAK_ATTEMPT", "SUSTAINED_JAILBREAK",
                                 "HIGH_RISK_CATEGORY">>,
                    bucket |-> "HIGH"]

(***************************************************************************)
(* C27: for every input the label list classify_report returns holds no    *)
(* label twice, and it holds HIGH_RISK_CATEGORY exactly when the returned  *)
(* bucket is HIGH.                                                         *)
(***************************************************************************)
C27_LabelsDistinct ==
    cr_out # <<>> =>
        LET out == cr_out[1]
        IN  /\ \A m, n \in DOMAIN out.labels :
                  out.labels[m] = out.labels[n] => m = n
            /\ "HIGH_RISK_CATEGORY" \in LabelSet(out.labels)
                  <=> out.bucket = "HIGH"

\* a snippet that repeats a phrase, a type label and a scan label of the
\* same family, and a score that reaches HIGH
C27_Witness ==
    /\ cr_out # <<>>
    /\ \E m, n \in DOMAIN cr_in.transcript_snippet :
          m # n /\ cr_in.transcript_snippet[m] = cr_in.transcript_snippet[n]
    /\ cr_in.abuse_type = "JAILBREAK_PRESSURE"
    /\ cr_out[1].bucket = "HIGH"
    /\ cr_out[1].labels = <<"JAILBREAK_ATTEMPT", "HARASSMENT_INDICATORS",
                            "HIGH_RISK_CATEGORY">>

(***************************************************************************)
(* get_response_template on the catalog init_db seeds into an empty        *)
(* database: every abuse type, every score of [0,1] in hundredths.         *)
(***************************************************************************)
SeededLookups == [abuse_type : AbuseType, score : 0..SCORE_MAX]

SeededResolveInit ==
    /\ preexisting = 0
    /\ store = <<>>
    /\ pending = {}
    /\ now = [sec |-> 0, usec |-> 0]
    /\ api_key = ""
    /\ pc = "disabled"
    /\ batch = <<>>
    /\ processed = 0
    /\ sleep_for = 0
    /\ last_cycle = "none"
    /\ call = NoCall
    /\ response = NoResponse
    /\ cr_in = NoInput
    /\ cr_out = <<>>
    /\ templates = init_db(<<>>)
    /\ inits = 1
    /\ tr_in \in SeededLookups
    /\ tr_out = <<>>
    /\ handler = Idle
    /\ served = NoOutcome

SeededResolveNext == Resolve

SeededResolveSpec == SeededResolveInit /\ [][SeededResolveNext]_vars

(***************************************************************************)
(* C26: with the seeded catalog, resolution never reaches the fallback for *)
(* any abuse type and any score in [0,1]; for OTHER, the one abuse type    *)
(* without a template of its own, the baseline band returned agrees with   *)
(* the severity bucket of the score: baseline_low exactly when LOW,        *)
(* baseline_medium exactly when MEDIUM, baseline_high exactly when HIGH,   *)
(* the higher band winning at the shared boundaries 0.4 and 0.7.           *)
(***************************************************************************)
C26_SeededCatalogCovers ==
    tr_out # <<>> =>
        LET bucket == DetermineBucket([final_score |-> tr_in.score,
                                       labels |-> <<>>]).bucket
        IN  /\ tr_out[1] # FALLBACK_RESPONSE
            /\ tr_in.abuse_type = "OTHER" =>
                  /\ tr_out[1] = "baseline_low" <=> bucket = "LOW"
                  /\ tr_out[1] = "baseline_medium" <=> bucket = "MEDIUM"
                  /\ tr_out[1] = "baseline_high" <=> bucket = "HIGH"
            /\ tr_in.abuse_type # "OTHER" =>
                  tr_out[1] \notin {"baseline_low", "baseline_medium",
                                    "baseline_high"}

\* OTHER at 0.4, where baseline_low and baseline_medium both hold the score
C26_Witness ==
    /\ tr_out # <<>>
    /\ tr_in = [abuse_type |-> "OTHER", score |-> MEDIUM_THRESHOLD]
    /\ Cardinality(Matching(NULL)) = 2
    /\ tr_out[1] = "baseline_medium"

(***************************************************************************)
(* C24: a worker write changes only a report's screening fields: spam      *)
(* status, signal label, severity bucket (only when unset) and the         *)
(* screening model.  A report's id, origin, abuse type, caller score,      *)
(* final severity score, snippet, trigger rules and classification labels  *)
(* stay as intake wrote them through any number of worker cycles, and the  *)
(* worker never creates or deletes a report.                               *)
(***************************************************************************)
IntakeFields(row) ==
    [id |-> row.id, origin |-> row.origin, abuse_type |-> row.abuse_type,
     agent_severity_score |-> row.agent_severity_score,
     final_severity_score |-> row.final_severity_score,
     transcript_snippet |-> row.transcript_snippet,
     trigger_rules |-> row.trigger_rules,
     classification_labels |-> row.classification_labels]

C24_WorkerFrame ==
    [][/\ \A i \in DOMAIN store :
             /\ i \in DOMAIN store'
             /\ IntakeFields(store'[i]) = IntakeFields(store[i])
             /\ store[i].severity_bucket # NULL
                   => store'[i].severity_bucket = store[i].severity_bucket
       /\ \A r \in pending' :
             /\ r.id \in DOMAIN store
             /\ IntakeFields(r) = IntakeFields(store[r.id])
             /\ store[r.id].severity_bucket # NULL
                   => r.severity_bucket = store[r.id].severity_bucket
       /\ worker_vars' # worker_vars => DOMAIN store' = DOMAIN store
      ]_vars

\* two reports that a verdict of the classifier was committed for, one
\* from each intake path, the fields intake wrote still in them
C24_Witness ==
    /\ last_cycle = "processed"
    /\ \E i, j \in DOMAIN store :
          /\ store[i].origin = "API_AGENT" /\ store[j].origin = "WEB_HUMAN"
          /\ store[i].spam_filter_model = OPENROUTER_MODEL
          /\ store[j].spam_filter_model = OPENROUTER_MODEL
          /\ store[i].spam_status = "SPAM"
          /\ store[i].classification_labels
                = <<"JAILBREAK_ATTEMPT", "SUSTAINED_JAILBREAK">>
          /\ store[j].final_severity_score = WEB_ABUSED_SEVERITY

(***************************************************************************)
(* C25: for each report of a batch the worker calls the classifier with    *)
(* that report's own origin, abuse type and stored severity score, for     *)
(* every score in [0,1] including 0.0, and with its snippet cut to the     *)
(* character budget: the text sent is a prefix of the stored snippet no    *)
(* longer than the budget.                                                 *)
(***************************************************************************)
C25_ClassifierArguments ==
    pc = "awaiting" =>
        LET row == store[batch[processed + 1].id]
        IN  /\ call # NoCall
            /\ call.id = row.id
            /\ call.origin = row.origin
            /\ call.abuse_type = row.abuse_type
            /\ row.agent_severity_score \in 0..SCORE_MAX
                  => call.severity_score = row.agent_severity_score
            /\ call.text \in Prefixes(row.transcript_snippet)
            /\ Len(call.text) <= PROMPT_TEXT_LIMIT
====
